---- MODULE Spec2Model ----
(***************************************************************************)
(* Model of src/sequential/small_encryptor.rs: SmallEncryptor<S>, the      *)
(* encryptor for data too small to split into three chunks.                *)
(*                                                                         *)
(* The caller holds one binding `encryptor`; new/write/close are the       *)
(* methods of the impl, translated as operators, and one action per call   *)
(* applies them.  Both builds are modelled: with debug assertions enabled  *)
(* the debug_assert! lines panic, without them they are compiled out.      *)
(***************************************************************************)
EXTENDS Integers, Sequences, FiniteSets, TLC

\* ---------------------------------------------------------------- bounds
\* MIN_CHUNK_SIZE is imported from the parent module (line 9); the crate
\* sets it to 1024.  It is scaled down here so that byte sequences up to
\* MAX can be enumerated.
MIN_CHUNK_SIZE == 2
\* number of write calls on one encryptor
MaxWrites == 2
\* how far past MAX the caller is allowed to push the buffer
MaxOver == 1
\* number of encryptors constructed one after the other (test lines 106-126)
MaxInstances == 2
\* byte values (u8 scaled down to two values)
Bytes == {0, 1}

\* ------------------------------------------------------------- constants
MAX == (3 * MIN_CHUNK_SIZE) - 1

\* --------------------------------------------------------------- helpers
SeqsUpTo(n) == UNION {[1..k -> Bytes] : k \in 0..n}

\* SimpleStorage::new() as an instrumented stub: a name and call counters
StorageVals == [name : {"s1", "s2"}, puts : {0}, gets : {0}]

Moved == [moved |-> TRUE]
NoResult == [none |-> TRUE]
NoObs == [none |-> TRUE]
NoFetch == [none |-> TRUE]

\* the three ways a call can end; Err is the Err side of the BoxFuture
Ok(v) == [tag |-> "Ok", value |-> v]
Panic == [tag |-> "Panic"]
Err(e) == [tag |-> "Err", error |-> e]

\* DataMap::Content(bytes)
Content(bytes) == [variant |-> "Content", content |-> bytes]

VARIABLES
  debug_assertions, \* build profile: TRUE when debug_assert! is compiled in
  encryptor,        \* the caller's binding: a SmallEncryptor or Moved
  outcome,          \* tag of the last future: "none", "Ok", "Panic", "Err"
  result,           \* what close() resolved to, or NoResult
  observed,         \* what len()/is_empty() returned, or NoObs
  fetched,          \* what the facade read back, or NoFetch
  storage_arg,      \* history: the storage handed to new()
  seed,             \* history: the data handed to new()
  pieces,           \* history: the data of every write that resolved Ok
  snaps,            \* history: the encryptor after new() and after each write
  existing_data,    \* history: all bytes accumulated (test lines 104, 112)
  last_call,        \* history: the last call, its data and the buffer before
  contract_ok,      \* history: every call so far met its size precondition
  inst,             \* history: number of encryptors constructed
  closes            \* history: number of close() calls on this encryptor

vars == <<debug_assertions, encryptor, outcome, result, observed, fetched,
          storage_arg, seed, pieces, snaps, existing_data, last_call,
          contract_ok, inst, closes>>

\* ------------------------------------------------------------ the methods
len_capacity(self) == MAX
len(self) == Len(self.buffer)

is_empty_one(self) == Len(self.buffer) <= 1
is_empty(self) == Len(self.buffer) = 0

new_no_assert(storage, data) == Ok([storage |-> storage, buffer |-> data])
new_err(storage, data) ==
  IF ~(Len(data) <= MAX)
    THEN Err("TooLarge")
    ELSE Ok([storage |-> storage, buffer |-> data])
new(storage, data) ==
  IF debug_assertions /\ ~(Len(data) <= MAX)
    THEN Panic
    ELSE Ok([storage |-> storage, buffer |-> data])

write_replace(self, data) ==
  IF debug_assertions /\ ~(Len(data) + len(self) <= MAX)
    THEN Panic
    ELSE Ok([self EXCEPT !.buffer = data])
write_prepend(self, data) ==
  IF debug_assertions /\ ~(Len(data) + len(self) <= MAX)
    THEN Panic
    ELSE Ok([self EXCEPT !.buffer = data \o self.buffer])
write_strict(self, data) ==
  IF debug_assertions /\ ~(Len(data) + len(self) < MAX)
    THEN Panic
    ELSE Ok([self EXCEPT !.buffer = self.buffer \o data])
write(self, data) ==
  IF debug_assertions /\ ~(Len(data) + len(self) <= MAX)
    THEN Panic
    ELSE Ok([self EXCEPT !.buffer = self.buffer \o data])

close_put(self) ==
  Ok([data_map |-> Content(self.buffer),
      storage |-> [self.storage EXCEPT !.puts = @ + 1]])
close_drop_last(self) ==
  Ok([data_map |-> Content(SubSeq(self.buffer, 1, Len(self.buffer) - 1)),
      storage |-> self.storage])
close(self) ==
  Ok([data_map |-> Content(self.buffer), storage |-> self.storage])

\* receiver modes of the methods: `self` moves the encryptor into the call
close_receiver_borrow == "&self"
close_receiver == "self"
write_receiver == "self"

\* the caller's binding after a call with the given receiver mode
AfterCall(receiver, enc) == IF receiver = "self" THEN Moved ELSE enc

\* ------------------------------------ the reconstruction facade (external)
\* SelfEncryptor::new(storage, data_map).read(position, length) over an
\* inline-content data map: the bytes of the content that lie in the range
SelfEncryptor_read(data_map, storage, position, length) ==
  LET last == IF position + length <= Len(data_map.content)
                THEN position + length
                ELSE Len(data_map.content)
  IN SubSeq(data_map.content, position + 1, last)

\* ------------------------------------------------------------------ Init
Init ==
  /\ debug_assertions \in BOOLEAN
  /\ encryptor = Moved
  /\ outcome = "none"
  /\ result = NoResult
  /\ observed = NoObs
  /\ fetched = NoFetch
  /\ storage_arg = CHOOSE s \in StorageVals : TRUE
  /\ seed = <<>>
  /\ pieces = <<>>
  /\ snaps = <<>>
  /\ existing_data = <<>>
  /\ last_call = [op |-> "none", data |-> <<>>, before |-> <<>>]
  /\ contract_ok = TRUE
  /\ inst = 0
  /\ closes = 0

\* --------------------------------------------------------------- actions
\* the common part of New and Reopen: unwrap!(SmallEncryptor::new(s, d).wait())
Construct(storage, data) ==
  LET fut == new(storage, data) IN
  /\ outcome' = fut.tag
  /\ encryptor' = IF fut.tag = "Ok" THEN fut.value ELSE Moved
  /\ snaps' = IF fut.tag = "Ok" THEN <<fut.value>> ELSE <<>>
  /\ storage_arg' = storage
  /\ seed' = data
  /\ pieces' = <<>>
  /\ last_call' = [op |-> "new", data |-> data, before |-> <<>>]
  /\ contract_ok' = (contract_ok /\ Len(data) <= MAX)
  /\ inst' = inst + 1
  /\ closes' = 0
  /\ result' = NoResult
  /\ observed' = NoObs
  /\ fetched' = NoFetch
  /\ UNCHANGED debug_assertions

\* first construction, with no pre-existing data map or with any seed
New ==
  /\ inst = 0
  /\ \E storage \in StorageVals, data \in SeqsUpTo(MAX + MaxOver) :
       /\ Construct(storage, data)
       /\ existing_data' = data

\* construction from the DataMap::Content a previous close() returned
Reopen ==
  /\ inst < MaxInstances
  /\ encryptor = Moved
  /\ result # NoResult
  /\ fetched # NoFetch
  /\ \E storage \in StorageVals :
       /\ Construct(storage, result.data_map.content)
       /\ UNCHANGED existing_data

\* encryptor = unwrap!(encryptor.write(data).wait())
Write ==
  /\ encryptor # Moved
  /\ Len(pieces) < MaxWrites
  /\ \E data \in SeqsUpTo(MAX + MaxOver) :
       /\ Len(encryptor.buffer) + Len(data) <= MAX + MaxOver
       /\ LET fut == write(encryptor, data) IN
          /\ outcome' = fut.tag
          /\ encryptor' = IF fut.tag = "Ok"
                            THEN fut.value
                            ELSE AfterCall(write_receiver, encryptor)
          /\ pieces' = IF fut.tag = "Ok" THEN Append(pieces, data) ELSE pieces
          /\ snaps' = IF fut.tag = "Ok" THEN Append(snaps, fut.value) ELSE snaps
          /\ existing_data' = IF fut.tag = "Ok"
                                THEN existing_data \o data
                                ELSE existing_data
          /\ last_call' = [op |-> "write", data |-> data,
                           before |-> encryptor.buffer]
          /\ contract_ok' = (contract_ok
                             /\ Len(encryptor.buffer) + Len(data) <= MAX)
  /\ observed' = NoObs
  /\ UNCHANGED <<debug_assertions, result, fetched, storage_arg, seed, inst,
                 closes>>

\* unwrap!(encryptor.close().wait())
Close ==
  /\ encryptor # Moved
  /\ LET fut == close(encryptor) IN
     /\ outcome' = fut.tag
     /\ result' = IF fut.tag = "Ok" THEN fut.value ELSE NoResult
  /\ encryptor' = AfterCall(close_receiver, encryptor)
  /\ closes' = closes + 1
  /\ last_call' = [op |-> "close", data |-> <<>>, before |-> encryptor.buffer]
  /\ observed' = NoObs
  /\ UNCHANGED <<debug_assertions, fetched, storage_arg, seed, pieces, snaps,
                 existing_data, contract_ok, inst>>

\* encryptor.len() and encryptor.is_empty()
Query ==
  /\ encryptor # Moved
  /\ observed = NoObs
  /\ observed' = [len |-> len(encryptor), is_empty |-> is_empty(encryptor)]
  /\ UNCHANGED <<debug_assertions, encryptor, outcome, result, fetched,
                 storage_arg, seed, pieces, snaps, existing_data, last_call,
                 contract_ok, inst, closes>>

\* SelfEncryptor::new(storage, data_map) and read(0, len) (test lines 94-95)
Read ==
  /\ result # NoResult
  /\ fetched = NoFetch
  /\ fetched' = [bytes |-> SelfEncryptor_read(result.data_map, result.storage,
                                              0, Len(existing_data))]
  /\ UNCHANGED <<debug_assertions, encryptor, outcome, result, observed,
                 storage_arg, seed, pieces, snaps, existing_data, last_call,
                 contract_ok, inst, closes>>

Next == New \/ Reopen \/ Write \/ Close \/ Query \/ Read

Spec == Init /\ [][Next]_vars

\* ---------------------------------------------------------------- claims
RECURSIVE Flatten(_)
Flatten(ss) == IF ss = <<>> THEN <<>> ELSE Head(ss) \o Flatten(Tail(ss))

Open == encryptor # Moved
Closed == result # NoResult

\* C1 (as stated): in every state reachable by new() followed by any
\* sequence of write() calls the buffer length never exceeds MAX.
C1_BufferNeverExceedsMax ==
  Open => Len(encryptor.buffer) <= MAX

\* C1 (amended): the buffer length never exceeds MAX in a build with debug
\* assertions, nor in any build as long as every new() and write() call so
\* far met its size precondition.
C1_BufferWithinMaxUnderContract ==
  (Open /\ (debug_assertions \/ contract_ok)) => Len(encryptor.buffer) <= MAX

C1_Witness ==
  /\ Open
  /\ ~debug_assertions
  /\ contract_ok
  /\ Len(pieces) >= 1
  /\ pieces[Len(pieces)] # <<>>
  /\ Len(encryptor.buffer) = MAX

\* C2: close() resolves to the inline-content data map whose bytes are the
\* seed followed by every written piece in order; with no write it is the
\* seed; and across encryptors each seeded with the previous content it is
\* all the bytes accumulated so far.
C2_CloseYieldsConcatenation ==
  Closed =>
    /\ result.data_map = Content(seed \o Flatten(pieces))
    /\ result.data_map.content = existing_data
    /\ (pieces = <<>> => result.data_map.content = seed)

C2_Witness ==
  /\ Closed
  /\ inst = 2
  /\ seed # <<>>
  /\ Len(pieces) = 2
  /\ pieces[1] # <<>>
  /\ pieces[2] # <<>>
  /\ pieces[1] # pieces[2]

\* C3: round trip: an encryptor constructed empty, given one write of B with
\* |B| <= MAX and closed, then read over [0, |B|) through the facade over the
\* returned data map and storage, yields exactly B.
C3_RoundTrip ==
  (/\ fetched # NoFetch
   /\ inst = 1
   /\ seed = <<>>
   /\ Len(pieces) = 1
   /\ Len(pieces[1]) <= MAX)
    => fetched.bytes = pieces[1]

C3_Witness ==
  /\ fetched # NoFetch
  /\ inst = 1
  /\ seed = <<>>
  /\ Len(pieces) = 1
  /\ Len(pieces[1]) = MAX
  /\ fetched.bytes = pieces[1]

\* C4: associativity of write: the encryptor reached by write(B1) then
\* write(B2) equals the one a single write(B1 ++ B2) produces from the same
\* starting encryptor, and both close() to the same result, whenever the
\* lengths stay within MAX.
C4_WriteAssociative ==
  (Len(pieces) >= 2 /\ Len(snaps[Len(snaps)].buffer) <= MAX) =>
    LET n == Len(pieces)
        start == snaps[n - 1]
        two == snaps[n + 1]
        one == write(start, pieces[n - 1] \o pieces[n])
    IN /\ one.tag = "Ok"
       /\ one.value = two
       /\ close(one.value) = close(two)
       /\ (Closed => result = close(one.value).value)

C4_Witness ==
  /\ Closed
  /\ Len(pieces) = 2
  /\ seed # <<>>
  /\ pieces[1] # <<>>
  /\ pieces[2] # <<>>
  /\ pieces[1] \o pieces[2] # pieces[2] \o pieces[1]
  /\ Len(existing_data) = MAX

\* C5: the storage is never invoked or modified: the encryptor holds, and
\* close() returns, the very storage passed to new(), with no put and no
\* get counted on it.
C5_StorageUntouched ==
  /\ Open => (encryptor.storage = storage_arg /\ encryptor.storage.puts = 0
              /\ encryptor.storage.gets = 0)
  /\ Closed => (result.storage = storage_arg /\ result.storage.puts = 0
                /\ result.storage.gets = 0)

C5_Witness ==
  /\ Closed
  /\ observed = NoObs
  /\ storage_arg.name = "s2"
  /\ Len(result.data_map.content) = MAX
  /\ Len(pieces) >= 1

\* C6: lifecycle: a constructed encryptor is open; write takes open to open;
\* close takes open to closed; a closed encryptor takes no further write or
\* close, so each buffer is finalized at most once.
LifecycleInv ==
  /\ closes <= 1
  /\ (closes = 1 => (~Open /\ Closed))
  /\ ((last_call.op \in {"new", "write"} /\ outcome = "Ok")
        => (Open /\ closes = 0))
  /\ (last_call.op = "close" => (~Open /\ closes = 1))

LifecycleStep ==
  /\ (Open /\ last_call'.op = "close" /\ inst' = inst) => (~Open' /\ Closed')
  /\ (~Open /\ inst' = inst) =>
        (~Open' /\ closes' = closes /\ result' = result /\ pieces' = pieces)

C6_Lifecycle == [](LifecycleInv) /\ [][LifecycleStep]_vars

C6_Witness ==
  /\ closes = 1
  /\ ~Open
  /\ Closed
  /\ Len(pieces) >= 1
  /\ fetched = NoFetch
  /\ inst = 1

\* C7: len() is the exact number of buffered bytes: the seed's length plus
\* the length of every written piece, each write adding exactly |data|; for
\* an empty seed and one write of B it is |B|.
RECURSIVE SumLen(_)
SumLen(ss) == IF ss = <<>> THEN 0 ELSE Len(Head(ss)) + SumLen(Tail(ss))

C7_LenIsExact ==
  /\ observed # NoObs => observed.len = Len(seed) + SumLen(pieces)
  /\ (observed # NoObs /\ seed = <<>> /\ Len(pieces) = 1)
        => observed.len = Len(pieces[1])
  /\ \A k \in 1..Len(pieces) :
        len(snaps[k + 1]) = len(snaps[k]) + Len(pieces[k])

C7_Witness ==
  /\ observed # NoObs
  /\ seed # <<>>
  /\ Len(pieces) = 2
  /\ pieces[1] # <<>>
  /\ pieces[2] # <<>>
  /\ observed.len = MAX

\* C8: is_empty() is true exactly when len() is 0, that is exactly when the
\* seed and every written piece were empty.
C8_IsEmptyIffLenZero ==
  observed # NoObs =>
    /\ observed.is_empty <=> (observed.len = 0)
    /\ observed.is_empty <=> (seed = <<>> /\ \A k \in 1..Len(pieces) :
                                                pieces[k] = <<>>)
    /\ (pieces = <<>> /\ seed = <<>>) => observed.is_empty

C8_Witness ==
  /\ observed # NoObs
  /\ ~observed.is_empty
  /\ seed = <<>>
  /\ Len(pieces) = 1
  /\ Len(pieces[1]) = 1

\* C9: no call resolves to an error value: close() always resolves Ok,
\* new() and write() resolve Ok whenever the size precondition holds, and a
\* violated precondition shows only as a panic of a debug-assertions build.
C9_NoRecoverableError ==
  /\ outcome # "Err"
  /\ last_call.op = "close" => outcome = "Ok"
  /\ (last_call.op \in {"new", "write"}
      /\ Len(last_call.before) + Len(last_call.data) <= MAX)
        => outcome = "Ok"
  /\ outcome = "Panic" =>
        /\ debug_assertions
        /\ last_call.op \in {"new", "write"}
        /\ Len(last_call.before) + Len(last_call.data) > MAX

C9_Witness ==
  /\ outcome = "Panic"
  /\ last_call.op = "write"
  /\ last_call.before # <<>>
  /\ Len(last_call.before) + Len(last_call.data) = MAX + 1

\* C10: the size threshold is exact and inclusive at MAX = 3 *
\* MIN_CHUNK_SIZE - 1: a seed or a write reaching exactly MAX passes the
\* check, one reaching MAX + 1 or more fails it, and in a build without the
\* check the oversized data is appended in full.
C10_ThresholdExact ==
  /\ MAX = 3 * MIN_CHUNK_SIZE - 1
  /\ last_call.op \in {"new", "write"} =>
       LET total == Len(last_call.before) + Len(last_call.data) IN
       /\ (debug_assertions /\ total <= MAX) => outcome = "Ok"
       /\ (debug_assertions /\ total >= MAX + 1) => outcome = "Panic"
       /\ ~debug_assertions => outcome = "Ok"
       /\ outcome = "Ok" =>
            /\ Open
            /\ encryptor.buffer = last_call.before \o last_call.data

C10_Witness ==
  /\ debug_assertions
  /\ last_call.op = "write"
  /\ outcome = "Ok"
  /\ last_call.data # <<>>
  /\ Len(last_call.before) + Len(last_call.data) = MAX
  /\ Open
  /\ observed = NoObs

====
